---- MODULE Spec2Model ----
(***************************************************************************)
(* Dancing-links exact-cover engine of the sudoku solver (src/main.rs):    *)
(* the matrix builder, cover / uncover, the search state machine and the   *)
(* iterator that drives it.                                                *)
(***************************************************************************)
EXTENDS Integers, Sequences, FiniteSets, TLC

\* ------------------------------------------------------------ board parameters
N == 9
N_COLS == N
N_ROWS == N
N_NODE_COLS == 4 * N_COLS * N_ROWS
N_NODE_COUNT == N * N_NODE_COLS
N_GRID_COUNT == (N + 1) * N_NODE_COLS + 1

\* type ColSize = u8: arithmetic on sizes is modulo 2^8 in a release build and
\* panics on overflow in a debug build.
ColSizeMod == 256

\* A `for k in lo..hi` loop folding Op over an accumulator, in index order.
\* The range is split in halves so that the evaluation depth stays logarithmic;
\* the calls Op(_, lo), Op(_, lo+1), ... happen in the loop's order, and the
\* left half is evaluated (left = left) before the right half starts.
RECURSIVE FoldRange(_, _, _, _)
FoldRange(Op(_, _), acc, lo, hi) ==
    IF lo >= hi THEN acc
    ELSE IF hi = lo + 1 THEN Op(acc, lo)
    ELSE LET mid  == (lo + hi) \div 2
             left == FoldRange(Op, acc, lo, mid)
         IN  IF left = left THEN FoldRange(Op, left, mid, hi) ELSE acc

\* ------------------------------------------------------------ nodes
Node(i, column) ==
    [left |-> i, right |-> i, up |-> i, down |-> i, column |-> column]

\* row_num_to_coords without the `+ 1` that turns the digit index into a digit.
row_num_to_coords_zero_based(i) ==
    [x |-> i \div (N * N), y |-> (i \div N) % N, z |-> i % N]

row_num_to_coords(i) ==
    [x |-> i \div (N * N), y |-> (i \div N) % N, z |-> (i % N) + 1]

\* col_numbers whose fourth column is indexed by the column j again instead
\* of the box.
col_numbers_box_by_column(i, j, z) ==
    << i * N + j,
       (N + i) * N + z,
       (2 * N + j) * N + z,
       (3 * N + j) * N + z >>

\* The four constraint columns of candidate (i, j, z): cell, row-digit,
\* column-digit, box-digit.
col_numbers(i, j, z) ==
    << i * N + j,
       (N + i) * N + z,
       (2 * N + j) * N + z,
       (3 * N + (j \div 3) * 3 + i \div 3) * N + z >>

\* ------------------------------------------------------------ matrix builder
\* The builder's vector: Vec::with_capacity(N_GRID_COUNT), `len` slots filled.
\* nodes.get_mut(k) is Some exactly when k < len.
EmptyVec ==
    [nodes |-> [k \in 0 .. N_GRID_COUNT - 1 |-> Node(k, k)], len |-> 0]

\* row_insert: splice `node` at the end of the horizontal ring starting at `row`.
row_insert(vec, node, row) ==
    LET has1   == row < vec.len
        nodes1 == IF has1 THEN [vec.nodes EXCEPT ![row].left = node.left] ELSE vec.nodes
        node1  == IF has1 THEN [node EXCEPT !.left = vec.nodes[row].left] ELSE node
        has2   == node1.left < vec.len
        nodes2 == IF has2 THEN [nodes1 EXCEPT ![node1.left].right = node1.right] ELSE nodes1
        node2  == IF has2 THEN [node1 EXCEPT !.right = nodes1[node1.left].right] ELSE node1
    IN  [vec |-> [vec EXCEPT !.nodes = nodes2], node |-> node2]

\* col_insert: splice `node` at the end of the vertical ring starting at `col`.
col_insert(vec, node, col) ==
    LET has1   == col < vec.len
        nodes1 == IF has1 THEN [vec.nodes EXCEPT ![col].up = node.up] ELSE vec.nodes
        node1  == IF has1 THEN [node EXCEPT !.up = vec.nodes[col].up] ELSE node
        has2   == node1.up < vec.len
        nodes2 == IF has2 THEN [nodes1 EXCEPT ![node1.up].down = node1.down] ELSE nodes1
        node2  == IF has2 THEN [node1 EXCEPT !.down = nodes1[node1.up].down] ELSE node1
    IN  [vec |-> [vec EXCEPT !.nodes = nodes2], node |-> node2]

\* add_node on the builder state b = [vec, col_names]; col_names maps a column
\* to the first node added to it (HashMap::entry(column).or_insert(new_i)).
add_node(b, row, col) ==
    LET new_i     == b.vec.len
        column    == col + N_NODE_COUNT
        seen      == column \in DOMAIN b.col_names
        col_start == IF seen THEN b.col_names[column] ELSE new_i
        r         == row_insert(b.vec, Node(new_i, column), row)
        c         == col_insert(r.vec, r.node, col_start)
    IN  [vec |-> [nodes |-> [c.vec.nodes EXCEPT ![new_i] = c.node],
                  len   |-> new_i + 1],
         col_names |-> IF seen THEN b.col_names
                       ELSE b.col_names @@ (column :> new_i)]

\* The k-th add_node call of the three nested loops over (i, j, z) and the
\* four columns of each candidate row.
AddRowNode(b, k) ==
    LET row_num == k \div 4
        i       == row_num \div (N * N)
        j       == (row_num \div N) % N
        z       == row_num % N
        row     == row_num * 4
    IN  add_node(b, row, col_numbers(i, j, z)[(k % 4) + 1])

AddHeader(b, col) == add_node(b, N_NODE_COUNT, col)

\* Table::from up to (not including) select_rows: the candidate rows, ...
BuiltRows ==
    FoldRange(AddRowNode, [vec |-> EmptyVec, col_names |-> << >>], 0, N_NODE_COUNT)

\* ... the column headers, ...
BuiltHeaders == FoldRange(AddHeader, BuiltRows, 0, N_NODE_COLS)

\* ... and root.
BuiltMatrix == add_node(BuiltHeaders, N_NODE_COUNT, N_NODE_COLS)

BuiltNodes == BuiltMatrix.vec.nodes


\* ------------------------------------------------------------ state
VARIABLES
    board,     \* the input Board handed to Table::from
    table,     \* the Table: nodes and sizes (its view), given, selected,
               \* search_state; plus two observers: asserts (TRUE while no
               \* debug_assert and no u8 overflow check has failed) and warned
               \* (the number of "invalid puzzle" warnings select_rows logged)
    yielded,   \* the Boards returned so far by Iterator::next, in order
    nones,     \* how many times Iterator::next returned None
    turns,     \* how many times Iterator::next called search()
    \* History variables: nothing in the code reads them.
    built,     \* the Table as Table::from returned it
    tried      \* per search depth, the rows of the chosen column pushed so far

vars == << board, table, yielded, nones, turns, built, tried >>

\* ------------------------------------------------------------ debug assertions
\* The loop of check_col_count from `next`: -1 stands for a failed
\* debug_assert_eq!(column, col_start) or for `count` overflowing its u8.
RECURSIVE col_count(_, _, _, _)
col_count(ns, col_start, next, count) ==
    IF ns[next].column # col_start THEN -1
    ELSE IF count + 1 >= ColSizeMod THEN -1
    ELSE IF ns[next].down = col_start THEN count + 1
    ELSE col_count(ns, col_start, ns[next].down, count + 1)

check_col_count(ns, size, col_start) ==
    col_count(ns, col_start, col_start, 0) = size

\* ------------------------------------------------------------ cover / uncover
\* A view v is [nodes, sizes, asserts].
\* Inner loop of cover_column: unlink the other nodes of row i, from j rightwards.
RECURSIVE cover_row(_, _, _)
\* cover_row without the decrement of the column's size.
cover_row_keeps_size(v, i, j) ==
    IF j = i THEN v
    ELSE LET n == v.nodes[j]
         IN  cover_row(
                 [v EXCEPT !.nodes = [@ EXCEPT ![n.down].up = n.up,
                                               ![n.up].down = n.down]],
                 i, n.right)

cover_row(v, i, j) ==
    IF j = i THEN v
    ELSE LET n  == v.nodes[j]
             jc == n.column - N_NODE_COUNT
         IN  cover_row(
                 [nodes   |-> [v.nodes EXCEPT ![n.down].up = n.up,
                                              ![n.up].down = n.down],
                  sizes   |-> [v.sizes EXCEPT ![jc] = (@ - 1) % ColSizeMod],
                  asserts |-> v.asserts /\ v.sizes[jc] >= 1],
                 i, n.right)

\* Outer loop of cover_column: the rows of `column`, from i downwards.
RECURSIVE cover_rows(_, _, _)
cover_rows(v, column, i) ==
    IF i = column THEN v
    ELSE LET n == v.nodes[i]
         IN  cover_rows(cover_row(v, i, n.right), column, n.down)

\* cover_column that unlinks the header on one side only: the left
\* neighbour's right pointer is left pointing at the header.
cover_column_half_unlink(v, column) ==
    LET c  == v.nodes[column]
        v1 == [v EXCEPT
                 !.asserts = @ /\ check_col_count(v.nodes,
                                     v.sizes[column - N_NODE_COUNT] + 1, column),
                 !.nodes = [@ EXCEPT ![c.right].left = c.left]]
    IN  cover_rows(v1, column, c.down)

cover_column(v, column) ==
    LET c  == v.nodes[column]
        v1 == [v EXCEPT
                 !.asserts = @ /\ check_col_count(v.nodes,
                                     v.sizes[column - N_NODE_COUNT] + 1, column),
                 !.nodes = [@ EXCEPT ![c.right].left = c.left,
                                     ![c.left].right = c.right]]
    IN  cover_rows(v1, column, c.down)

\* Inner loop of uncover_column: relink the other nodes of row i, from j leftwards.
RECURSIVE uncover_row(_, _, _)
uncover_row(v, i, j) ==
    IF j = i THEN v
    ELSE LET n  == v.nodes[j]
             jc == n.column - N_NODE_COUNT
         IN  uncover_row(
                 [nodes   |-> [v.nodes EXCEPT ![n.down].up = j,
                                              ![n.up].down = j],
                  sizes   |-> [v.sizes EXCEPT ![jc] = (@ + 1) % ColSizeMod],
                  asserts |-> v.asserts /\ v.sizes[jc] + 1 < ColSizeMod],
                 i, n.left)

\* Outer loop of uncover_column: the rows of `column`, from i upwards.
RECURSIVE uncover_rows(_, _, _)
uncover_rows(v, column, i) ==
    IF i = column THEN v
    ELSE LET n == v.nodes[i]
         IN  uncover_rows(uncover_row(v, i, n.left), column, n.up)

\* uncover_column without the final relinking of the header into the header ring.
uncover_column_no_relink(v, column) ==
    uncover_rows(v, column, v.nodes[column].up)

uncover_column(v, column) ==
    LET c  == v.nodes[column]
        v1 == uncover_rows(v, column, c.up)
    IN  [v1 EXCEPT !.nodes = [@ EXCEPT ![c.right].left = column,
                                       ![c.left].right = column]]

\* ------------------------------------------------------------ construction
\* One iteration of select_rows' inner `for col in columns`: warn and skip a
\* column that is no longer in the header ring, cover it otherwise.
\* st is [v, rows, warned].
select_col(st, col) ==
    LET h == col + N_NODE_COUNT
    IN  IF st.v.nodes[st.v.nodes[h].left].right # h
        THEN [st EXCEPT !.warned = @ + 1]
        ELSE [st EXCEPT !.v = cover_column(st.v, h)]

\* select_cell recording the row of digit `cell + 1` (the `- 1` forgotten).
select_cell_off_by_one(b, st, k) ==
    LET i    == k \div N
        j    == k % N
        cell == b[i][j]
        cols == col_numbers(i, j, cell - 1)
        pick(s, m) == select_col(s, cols[m])
    IN  IF cell < 1 THEN st
        ELSE FoldRange(pick,
                 [st EXCEPT !.rows = Append(@, 4 * ((i * N + j) * N + cell))],
                 1, 5)

\* select_cell that drops a given colliding with an earlier one: it warns
\* once, records no row and covers none of the given's columns.
select_cell_skips_clashing_given(b, st, k) ==
    LET i    == k \div N
        j    == k % N
        cell == b[i][j]
        cols == col_numbers(i, j, cell - 1)
        gone(m) == LET h == cols[m] + N_NODE_COUNT
                   IN  st.v.nodes[st.v.nodes[h].left].right # h
        pick(s, m) == select_col(s, cols[m])
    IN  IF cell < 1 THEN st
        ELSE IF \E m \in 1 .. 4 : gone(m) THEN [st EXCEPT !.warned = @ + 1]
        ELSE FoldRange(pick,
                 [st EXCEPT !.rows = Append(@, 4 * ((i * N + j) * N + cell - 1))],
                 1, 5)

\* One iteration of select_rows' loops over the cells, k = i * N + j.
select_cell(b, st, k) ==
    LET i    == k \div N
        j    == k % N
        cell == b[i][j]
        cols == col_numbers(i, j, cell - 1)
        pick(s, m) == select_col(s, cols[m])
    IN  IF cell < 1 THEN st
        ELSE FoldRange(pick,
                 [st EXCEPT !.rows = Append(@, 4 * ((i * N + j) * N + cell - 1))],
                 1, 5)

select_rows(v, b) ==
    LET cellstep(s, k) == select_cell(b, s, k)
    IN  FoldRange(cellstep, [v |-> v, rows |-> << >>, warned |-> 0], 0, N_ROWS * N_COLS)

\* The view Table::from hands to select_rows: the built matrix and sizes all
\* N; asserts starts as the outcome of the builder's debug_assert_eq!s.
BuiltView ==
    [nodes   |-> BuiltNodes,
     sizes   |-> [c \in 0 .. N_NODE_COLS - 1 |-> N],
     asserts |-> /\ BuiltRows.vec.len = N_NODE_COUNT
                 /\ Cardinality(DOMAIN BuiltRows.col_names) = N_NODE_COLS
                 /\ BuiltMatrix.vec.len = N_GRID_COUNT]

\* Table::from(&board): the built view with the givens of b covered.
TableFrom(b) ==
    LET st == select_rows(BuiltView, b)
    IN  [nodes |-> st.v.nodes, sizes |-> st.v.sizes, given |-> st.rows,
         selected |-> << >>, search_state |-> "Begin",
         asserts |-> st.v.asserts, warned |-> st.warned]

\* ------------------------------------------------------------ materializer
EmptyCells == [i \in 0 .. N_ROWS - 1 |-> [j \in 0 .. N_COLS - 1 |-> 0]]

\* Board::from(&table): the given rows then the selected rows, later rows
\* overwriting earlier ones.
BoardFrom(g, sel) ==
    LET rows == g \o sel
        put(cells, k) ==
            LET co == row_num_to_coords(rows[k] \div 4)
            IN  [cells EXCEPT ![co.x][co.y] = co.z]
    IN  FoldRange(put, EmptyCells, 1, Len(rows) + 1)

\* ------------------------------------------------------------ search
\* One turn of choose_column's `while s > 0 && j != h_i`; st is [j, s, c, ok],
\* ok being the outcome of the debug assertions met so far.
\* choose_step comparing with <= : among columns of equal size the last one
\* met wins.
choose_step_last_smallest(v, h_i, st) ==
    IF st.s > 0 /\ st.j # h_i
    THEN LET j_size == v.sizes[st.j - N_NODE_COUNT]
         IN  [j  |-> v.nodes[st.j].right,
              s  |-> IF j_size <= st.s THEN j_size ELSE st.s,
              c  |-> IF j_size <= st.s THEN st.j ELSE st.c,
              ok |-> st.ok /\ check_col_count(v.nodes, j_size + 1, st.j)]
    ELSE st

choose_step(v, h_i, st) ==
    IF st.s > 0 /\ st.j # h_i
    THEN LET j_size == v.sizes[st.j - N_NODE_COUNT]
         IN  [j  |-> v.nodes[st.j].right,
              s  |-> IF j_size < st.s THEN j_size ELSE st.s,
              c  |-> IF j_size < st.s THEN st.j ELSE st.c,
              ok |-> st.ok /\ check_col_count(v.nodes, j_size + 1, st.j)]
    ELSE st

\* choose_column: the loop runs at most once per column header, so it is
\* unrolled N_NODE_COLS times; a walk that has not ended by then never ends,
\* which is reported through ok. Returns the chosen column and ok.
choose_column(v, h_i, j) ==
    LET turn(st, k) == choose_step(v, h_i, st)
        end == FoldRange(turn,
                   [j |-> j, s |-> N + 1, c |-> j, ok |-> v.asserts /\ h_i # j],
                   0, N_NODE_COLS)
    IN  [c |-> end.c, ok |-> end.ok /\ ~(end.s > 0 /\ end.j # h_i)]

\* A table t is [nodes, sizes, given, selected, search_state, asserts, warned].
ViewOf(t) == [nodes |-> t.nodes, sizes |-> t.sizes, asserts |-> t.asserts]

WithView(t, v) ==
    [t EXCEPT !.nodes = v.nodes, !.sizes = v.sizes, !.asserts = v.asserts]

\* The Begin arm that pushes the last row of the chosen column (c.up) instead
\* of the first (c.down).
search_begin_pushes_last_row(t) ==
    LET h_i     == N_GRID_COUNT - 1
        h_right == t.nodes[h_i].right
    IN  IF h_i = h_right
        THEN [t EXCEPT !.search_state = "SolutionFound"]
        ELSE LET ch == choose_column(ViewOf(t), h_i, h_right)
                 c  == ch.c
                 r  == t.nodes[c].up
                 v  == [ViewOf(t) EXCEPT !.asserts = ch.ok]
             IN  IF r = c
                 THEN [WithView(t, v) EXCEPT !.search_state = "Uncover"]
                 ELSE [WithView(t, cover_column(v, c)) EXCEPT
                          !.selected = Append(@, r),
                          !.search_state = "Cover"]

\* The Begin arm that covers the chosen column before it looks whether the
\* column has a row.
search_begin_covers_empty(t) ==
    LET h_i     == N_GRID_COUNT - 1
        h_right == t.nodes[h_i].right
    IN  IF h_i = h_right
        THEN [t EXCEPT !.search_state = "SolutionFound"]
        ELSE LET ch == choose_column(ViewOf(t), h_i, h_right)
                 c  == ch.c
                 r  == t.nodes[c].down
                 v  == cover_column([ViewOf(t) EXCEPT !.asserts = ch.ok], c)
             IN  IF r = c
                 THEN [WithView(t, v) EXCEPT !.search_state = "Uncover"]
                 ELSE [WithView(t, v) EXCEPT
                          !.selected = Append(@, r),
                          !.search_state = "Cover"]

\* search(), arm SearchState::Begin
search_begin(t) ==
    LET h_i     == N_GRID_COUNT - 1
        h_right == t.nodes[h_i].right
    IN  IF h_i = h_right
        THEN [t EXCEPT !.search_state = "SolutionFound"]
        ELSE LET ch == choose_column(ViewOf(t), h_i, h_right)
                 c  == ch.c
                 r  == t.nodes[c].down
                 v  == [ViewOf(t) EXCEPT !.asserts = ch.ok]
             IN  IF r = c
                 THEN [WithView(t, v) EXCEPT !.search_state = "Uncover"]
                 ELSE [WithView(t, cover_column(v, c)) EXCEPT
                          !.selected = Append(@, r),
                          !.search_state = "Cover"]

\* The SolutionFound arm that already pops the last selected row on its way
\* to Uncover.
search_solution_found_pops(t) ==
    [t EXCEPT !.selected = SubSeq(@, 1, Len(@) - 1), !.search_state = "Uncover"]

\* search(), arm SearchState::SolutionFound
search_solution_found(t) == [t EXCEPT !.search_state = "Uncover"]

\* The loop of the Cover arm: cover the columns of the other nodes of row r,
\* walking right from j.
RECURSIVE cover_others(_, _, _)
cover_others(v, r, j) ==
    IF j = r THEN v
    ELSE LET n == v.nodes[j]
         IN  cover_others(cover_column(v, n.column), r, n.right)

\* The Cover arm that starts its walk one node too far: the column of the
\* node right of r is not covered.
search_cover_skips_first(t) ==
    LET r == t.selected[Len(t.selected)]
    IN  [WithView(t, cover_others(ViewOf(t), r, t.nodes[t.nodes[r].right].right)) EXCEPT
            !.search_state = "Begin"]

\* search(), arm SearchState::Cover
search_cover(t) ==
    LET r == t.selected[Len(t.selected)]
    IN  [WithView(t, cover_others(ViewOf(t), r, t.nodes[r].right)) EXCEPT
            !.search_state = "Begin"]

\* The loop of the Uncover arm: uncover the columns of the other nodes of row
\* r, walking left from j.
RECURSIVE uncover_others(_, _, _)
\* The same loop walking right: it uncovers the columns in the order in which
\* Cover covered them.
RECURSIVE uncover_rightwards(_, _, _)
uncover_rightwards(v, r, j) ==
    IF j = r THEN v
    ELSE LET n == v.nodes[j]
         IN  uncover_rightwards(uncover_column(v, n.column), r, n.right)

uncover_others_forward(v, r, j) == uncover_rightwards(v, r, v.nodes[r].right)

uncover_others(v, r, j) ==
    IF j = r THEN v
    ELSE LET n == v.nodes[j]
         IN  uncover_others(uncover_column(v, n.column), r, n.left)

\* The Uncover arm that never tries the next row of the column: it always
\* uncovers the column and backtracks.
search_uncover_no_retry(t) ==
    IF Len(t.selected) = 0
    THEN [t EXCEPT !.search_state = "Finished"]
    ELSE LET r      == t.selected[Len(t.selected)]
             popped == SubSeq(t.selected, 1, Len(t.selected) - 1)
             n      == t.nodes[r]
             v      == uncover_others(ViewOf(t), r, n.left)
         IN  [WithView(t, uncover_column(v, n.column)) EXCEPT
                 !.selected = popped,
                 !.search_state = "Uncover"]

\* The Uncover arm that pushes the popped row again instead of the row below it.
search_uncover_same_row(t) ==
    IF Len(t.selected) = 0
    THEN [t EXCEPT !.search_state = "Finished"]
    ELSE LET r      == t.selected[Len(t.selected)]
             popped == SubSeq(t.selected, 1, Len(t.selected) - 1)
             n      == t.nodes[r]
             v      == uncover_others(ViewOf(t), r, n.left)
         IN  IF n.down = n.column
             THEN [WithView(t, uncover_column(v, n.column)) EXCEPT
                      !.selected = popped,
                      !.search_state = "Uncover"]
             ELSE [WithView(t, v) EXCEPT
                      !.selected = Append(popped, r),
                      !.search_state = "Cover"]

\* The Uncover arm that, once the selection stack is empty, goes on to
\* backtrack over the last given row: it uncovers that row's column.
search_uncover_pops_given(t) ==
    IF Len(t.selected) = 0
    THEN IF Len(t.given) = 0
         THEN [t EXCEPT !.search_state = "Finished"]
         ELSE LET g == t.given[Len(t.given)]
              IN  [WithView(t, uncover_column(ViewOf(t), t.nodes[g].column)) EXCEPT
                      !.search_state = "Finished"]
    ELSE LET r      == t.selected[Len(t.selected)]
             popped == SubSeq(t.selected, 1, Len(t.selected) - 1)
             n      == t.nodes[r]
             v      == uncover_others(ViewOf(t), r, n.left)
         IN  IF n.down = n.column
             THEN [WithView(t, uncover_column(v, n.column)) EXCEPT
                      !.selected = popped,
                      !.search_state = "Uncover"]
             ELSE [WithView(t, v) EXCEPT
                      !.selected = Append(popped, n.down),
                      !.search_state = "Cover"]

\* The Uncover arm that, after the last row of a column, pops without
\* uncovering the column itself.
search_uncover_keeps_column(t) ==
    IF Len(t.selected) = 0
    THEN [t EXCEPT !.search_state = "Finished"]
    ELSE LET r      == t.selected[Len(t.selected)]
             popped == SubSeq(t.selected, 1, Len(t.selected) - 1)
             n      == t.nodes[r]
             v      == uncover_others(ViewOf(t), r, n.left)
         IN  IF n.down = n.column
             THEN [WithView(t, v) EXCEPT
                      !.selected = popped,
                      !.search_state = "Uncover"]
             ELSE [WithView(t, v) EXCEPT
                      !.selected = Append(popped, n.down),
                      !.search_state = "Cover"]

\* search(), arm SearchState::Uncover
search_uncover(t) ==
    IF Len(t.selected) = 0
    THEN [t EXCEPT !.search_state = "Finished"]
    ELSE LET r      == t.selected[Len(t.selected)]
             popped == SubSeq(t.selected, 1, Len(t.selected) - 1)
             n      == t.nodes[r]
             v      == uncover_others(ViewOf(t), r, n.left)
         IN  IF n.down = n.column
             THEN [WithView(t, uncover_column(v, n.column)) EXCEPT
                      !.selected = popped,
                      !.search_state = "Uncover"]
             ELSE [WithView(t, v) EXCEPT
                      !.selected = Append(popped, n.down),
                      !.search_state = "Cover"]

\* The Finished arm that restarts the search.
search_finished_restarts(t) == [t EXCEPT !.search_state = "Begin"]

\* search(), arm SearchState::Finished
search_finished(t) == [t EXCEPT !.search_state = "Finished"]

\* Table::search: advance the search state by one step.
search(t) ==
    CASE t.search_state = "Begin"         -> search_begin(t)
      [] t.search_state = "SolutionFound" -> search_solution_found(t)
      [] t.search_state = "Cover"         -> search_cover(t)
      [] t.search_state = "Uncover"       -> search_uncover(t)
      [] t.search_state = "Finished"      -> search_finished(t)

\* ------------------------------------------------------------ inputs
Grid(rows) ==
    [i \in 0 .. N_ROWS - 1 |-> [j \in 0 .. N_COLS - 1 |-> rows[i + 1][j + 1]]]

\* A solved grid.
Solution ==
    Grid(<< << 1, 2, 3, 4, 5, 6, 7, 8, 9 >>,
            << 7, 8, 9, 1, 2, 3, 4, 5, 6 >>,
            << 4, 5, 6, 7, 8, 9, 1, 2, 3 >>,
            << 3, 1, 2, 8, 4, 5, 9, 6, 7 >>,
            << 6, 9, 7, 3, 1, 2, 8, 4, 5 >>,
            << 8, 4, 5, 6, 9, 7, 3, 1, 2 >>,
            << 2, 3, 1, 5, 7, 4, 6, 9, 8 >>,
            << 9, 6, 8, 2, 3, 1, 5, 7, 4 >>,
            << 5, 7, 4, 9, 6, 8, 2, 3, 1 >> >>)

\* The solved grid with the 9 of row 0 repeated at cell (0, 0): it collides
\* with the 9 at (0, 8) in the row, at (7, 0) in the column, at (1, 2) in the box.
Clashed == [Solution EXCEPT ![0][0] = 9]

\* Cells that may be blanked: an interchangeable rectangle of 7s and 9s
\* ((0,6), (0,8), (3,6), (3,8)) and the three cells Clashed collides with.
BlankPool == { <<0, 6>>, <<0, 8>>, <<3, 6>>, <<3, 8>>, <<7, 0>>, <<1, 2>> }

MaxBlanks == 4

Blank(b, cells) ==
    [i \in 0 .. N_ROWS - 1 |->
        [j \in 0 .. N_COLS - 1 |-> IF <<i, j>> \in cells THEN 0 ELSE b[i][j]]]

\* Two puzzles that need backtracking: the first has one completion, the
\* second has two; in both the search meets a column with no row left.
Puzzles ==
    { Grid(<< << 1, 0, 3, 0, 5, 0, 7, 8, 0 >>,
              << 0, 0, 0, 1, 0, 0, 0, 5, 0 >>,
              << 0, 0, 6, 0, 8, 9, 0, 0, 3 >>,
              << 0, 1, 0, 8, 0, 0, 0, 6, 7 >>,
              << 6, 9, 0, 0, 1, 0, 0, 4, 0 >>,
              << 0, 0, 5, 0, 9, 0, 3, 0, 2 >>,
              << 0, 3, 0, 5, 0, 0, 0, 0, 8 >>,
              << 0, 6, 0, 2, 0, 1, 0, 0, 4 >>,
              << 5, 0, 0, 0, 0, 8, 0, 0, 1 >> >>),
      Grid(<< << 0, 0, 0, 4, 0, 0, 7, 8, 0 >>,
              << 7, 0, 9, 0, 0, 0, 4, 0, 0 >>,
              << 4, 5, 0, 0, 0, 9, 1, 0, 3 >>,
              << 0, 1, 0, 0, 0, 0, 9, 6, 7 >>,
              << 0, 9, 0, 0, 0, 2, 8, 0, 0 >>,
              << 0, 0, 0, 6, 0, 7, 3, 0, 2 >>,
              << 0, 3, 1, 0, 7, 4, 0, 0, 8 >>,
              << 0, 0, 0, 0, 3, 1, 0, 7, 0 >>,
              << 0, 0, 0, 9, 6, 0, 0, 3, 0 >> >>) }

\* A puzzle with colliding givens whose search selects rows before it runs
\* out of candidates: the 9 at (0, 0) collides with the 9s at (0, 8), (7, 0)
\* and (1, 2), and still every column left has a row when the search starts.
ClashedPuzzles ==
    { Grid(<< << 9, 0, 0, 4, 5, 6, 7, 8, 9 >>,
              << 7, 8, 9, 1, 0, 0, 4, 5, 6 >>,
              << 4, 5, 6, 0, 8, 0, 1, 2, 3 >>,
              << 0, 0, 0, 8, 4, 0, 0, 0, 7 >>,
              << 6, 0, 7, 3, 1, 2, 0, 0, 5 >>,
              << 8, 0, 5, 6, 9, 7, 3, 1, 2 >>,
              << 0, 0, 0, 0, 0, 4, 6, 9, 8 >>,
              << 9, 0, 0, 2, 3, 0, 0, 7, 0 >>,
              << 5, 7, 4, 9, 6, 8, 2, 3, 0 >> >>) }

Boards ==
    { Blank(b, cells) :
        b \in {Solution, Clashed},
        cells \in {s \in SUBSET BlankPool : Cardinality(s) <= MaxBlanks} }
    \cup Puzzles \cup ClashedPuzzles

\* ------------------------------------------------------------ actions
Last(seq) == seq[Len(seq)]

\* seq without its last element; the empty sequence stays empty.
Front(seq) == SubSeq(seq, 1, Len(seq) - 1)

\* The consumer asks for None at most MaxNones times and lets next() call
\* search() at most MaxTurns times.
MaxNones == 2
MaxTurns == 200

Init ==
    /\ board \in Boards
    /\ table = TableFrom(board)
    /\ yielded = << >>
    /\ nones = 0
    /\ turns = 0
    /\ built = table
    /\ tried = << >>

\* Iterator::next, one turn of its loop in Begin: `_ => self.search()`.
NextBegin ==
    /\ table.search_state = "Begin"
    /\ turns < MaxTurns
    /\ table' = search(table)
    /\ turns' = turns + 1
    /\ tried' = IF table'.search_state = "Cover"
                THEN Append(tried, << Last(table'.selected) >>)
                ELSE tried
    /\ UNCHANGED << board, yielded, nones, built >>

\* Iterator::next, one turn of its loop in Cover: `_ => self.search()`.
NextCover ==
    /\ table.search_state = "Cover"
    /\ turns < MaxTurns
    /\ table' = search(table)
    /\ turns' = turns + 1
    /\ UNCHANGED << board, yielded, nones, built, tried >>

\* Iterator::next, one turn of its loop in Uncover: `_ => self.search()`.
NextUncover ==
    /\ table.search_state = "Uncover"
    /\ turns < MaxTurns
    /\ table' = search(table)
    /\ turns' = turns + 1
    /\ tried' = IF table'.search_state = "Cover"
                THEN [tried EXCEPT ![Len(tried)] = Append(@, Last(table'.selected))]
                ELSE Front(tried)
    /\ UNCHANGED << board, yielded, nones, built >>

\* Iterator::next in SolutionFound: search(), then return Some(Board::from(self)).
NextSolutionFound ==
    /\ table.search_state = "SolutionFound"
    /\ turns < MaxTurns
    /\ table' = search(table)
    /\ turns' = turns + 1
    /\ yielded' = Append(yielded, BoardFrom(table'.given, table'.selected))
    /\ UNCHANGED << board, nones, built, tried >>

\* Iterator::next in Finished: return None, without calling search().
NextFinished ==
    /\ table.search_state = "Finished"
    /\ nones < MaxNones
    /\ nones' = nones + 1
    /\ UNCHANGED << board, table, yielded, turns, built, tried >>

\* A direct call of search() in Finished.
SearchFinished ==
    /\ table.search_state = "Finished"
    /\ table' = search(table)
    /\ UNCHANGED << board, yielded, nones, turns, built, tried >>

Next ==
    \/ NextBegin
    \/ NextCover
    \/ NextUncover
    \/ NextSolutionFound
    \/ NextFinished
    \/ SearchFinished

Spec == Init /\ [][Next]_vars

\* ------------------------------------------------------------ reference notions
Root == N_GRID_COUNT - 1
Headers == N_NODE_COUNT .. N_GRID_COUNT - 2
Digits == 1 .. N
Cells == (0 .. N_ROWS - 1) \X (0 .. N_COLS - 1)

At(b, c) == b[c[1]][c[2]]

SameUnit(c1, c2) ==
    \/ c1[1] = c2[1]
    \/ c1[2] = c2[2]
    \/ (c1[1] \div 3 = c2[1] \div 3 /\ c1[2] \div 3 = c2[2] \div 3)

\* Two givens carry the same digit in one row, one column or one box.
GivensCollide(b) ==
    \E c1 \in Cells :
        /\ At(b, c1) # 0
        /\ \E c2 \in Cells : c2 # c1 /\ At(b, c2) = At(b, c1) /\ SameUnit(c1, c2)

\* No blank, and every row, column and box holds every digit.
ValidGrid(g) ==
    /\ \A i \in 0 .. N - 1 : { g[i][j] : j \in 0 .. N - 1 } = Digits
    /\ \A j \in 0 .. N - 1 : { g[i][j] : i \in 0 .. N - 1 } = Digits
    /\ \A bi, bj \in 0 .. 2 :
          { g[3 * bi + a][3 * bj + c] : a, c \in 0 .. 2 } = Digits

\* g agrees with b on every non-blank cell of b.
Extends(g, b) == \A c \in Cells : At(b, c) # 0 => At(g, c) = At(b, c)

\* The valid completions of b, by plain cell-by-cell enumeration.
RECURSIVE Completions(_)
Completions(b) ==
    LET blanks == { c \in Cells : At(b, c) = 0 }
    IN  IF blanks = {}
        THEN IF ValidGrid(b) THEN {b} ELSE {}
        ELSE LET c    == CHOOSE x \in blanks : TRUE
                 fits == { d \in Digits :
                             \A p \in Cells : SameUnit(p, c) => At(b, p) # d }
             IN  UNION { Completions([b EXCEPT ![c[1]][c[2]] = d]) : d \in fits }

Range(seq) == { seq[k] : k \in 1 .. Len(seq) }

Finished == table.search_state = "Finished"

\* ------------------------------------------------------------ claims
\* C1: for a puzzle whose givens do not collide, the iterator driven to
\* exhaustion has yielded exactly as many Grids as the puzzle has valid
\* completions, all pairwise distinct (one Grid for one completion, two for two).
C1_YieldsEveryCompletionOnce ==
    (Finished /\ ~GivensCollide(board)) =>
        /\ Len(yielded) = Cardinality(Completions(board))
        /\ Cardinality(Range(yielded)) = Len(yielded)

C1_Witness ==
    /\ Finished
    /\ ~GivensCollide(board)
    /\ Len(yielded) = 2
    /\ yielded[1] # yielded[2]

\* C2: for a puzzle with two colliding givens construction fails, so no step
\* of the engine is ever taken on such a puzzle.
C2_NoEngineForCollidingGivens ==
    [][~GivensCollide(board)]_vars

\* The column headers met walking `right` from root, in order; at most
\* N_NODE_COLS of them, so the walk is unrolled N_NODE_COLS + 1 times.
\* st is [j, seen]; the walk is closed when it ends with j = Root.
HeaderWalk(ns) ==
    LET turn(st, k) ==
            IF st.j = Root THEN st
            ELSE [j |-> ns[st.j].right, seen |-> Append(st.seen, st.j)]
    IN  FoldRange(turn, [j |-> ns[Root].right, seen |-> << >>], 0, N_NODE_COLS + 1)

HeaderRing(ns) == Range(HeaderWalk(ns).seen)

\* The row nodes met walking `down` from header c, in order; a column holds at
\* most N rows, so the walk is unrolled N + 1 times.
ColumnWalk(ns, c) ==
    LET turn(st, k) ==
            IF st.j = c THEN st
            ELSE [j |-> ns[st.j].down, seen |-> Append(st.seen, st.j)]
    IN  FoldRange(turn, [j |-> ns[c].down, seen |-> << >>], 0, N + 1)

\* cover_column(c) then uncover_column(c) from the current table leaves every
\* node's pointers and every size as they were.
RoundTrip(c) ==
    LET v == ViewOf(table)
        w == uncover_column(cover_column(v, c), c)
    IN  w.nodes = v.nodes /\ w.sizes = v.sizes

\* C3 (as claimed): the round trip is the identity for every one of the
\* 4*N*N column headers, in every state at a step boundary.
C3_RoundTripAnyColumn == \A c \in Headers : RoundTrip(c)

\* C3 (amended): the round trip is the identity for every column header that
\* is in the header ring, in every state at a step boundary.
C3_RoundTripLiveColumn == \A c \in HeaderRing(table.nodes) : RoundTrip(c)

C3_Witness ==
    /\ table.search_state = "Cover"
    /\ Len(table.selected) >= 2
    /\ \E c \in HeaderRing(table.nodes) : table.sizes[c - N_NODE_COUNT] >= 2

\* The constraint columns hit by the rows of a row list (row numbers * 4).
ColumnsOf(r) ==
    LET co == row_num_to_coords(r \div 4)
        cs == col_numbers(co.x, co.y, co.z - 1)
    IN  { cs[m] : m \in 1 .. 4 }

\* C4: every Grid the iterator yields is complete and valid and agrees with
\* the input on every non-blank cell; and when a solution is found the rows
\* in given and selected hit every constraint column exactly once.
C4_YieldedGridsAreSolutions ==
    /\ \A k \in 1 .. Len(yielded) :
          ValidGrid(yielded[k]) /\ Extends(yielded[k], board)
    /\ table.search_state = "SolutionFound" =>
          LET rows == table.given \o table.selected
          IN  \A col \in 0 .. N_NODE_COLS - 1 :
                  Cardinality({ k \in 1 .. Len(rows) : col \in ColumnsOf(rows[k]) }) = 1

C4_Witness ==
    /\ Len(yielded) >= 1
    /\ \E c \in Cells : At(board, c) = 0 /\ At(yielded[1], c) # 0

\* C5: decoding the given rows alone, before any row is selected, reproduces
\* the input Grid cell for cell, colliding givens included.
C5_GivenRowsDecodeToInput ==
    table.selected = << >> => BoardFrom(table.given, table.selected) = board

C5_Witness ==
    /\ table.search_state = "Begin"
    /\ table.selected = << >>
    /\ table.warned >= 2
    /\ Len(table.given) >= N * N - MaxBlanks

\* C6: from any constructed engine, repeatedly advancing the search reaches
\* Finished: next() never uses up its MaxTurns calls of search() without
\* having reached Finished, so the Grids yielded are finitely many and the
\* search does not loop between Begin, Cover and Uncover.
C6_ReachesFinished == turns = MaxTurns => Finished

C6_Witness ==
    /\ Finished
    /\ Len(yielded) >= 2
    /\ turns > 4 * MaxBlanks + 100

\* C8: Finished is terminal: a step taken in Finished (a further search() or a
\* further next()) leaves the whole table as it is, Finished included, and
\* yields no Grid.
C8_FinishedIsTerminal ==
    [][Finished => (table' = table /\ yielded' = yielded)]_vars

C8_Witness ==
    /\ Finished
    /\ nones >= 2
    /\ Len(yielded) >= 1

\* C9: at every step boundary, for every column header in the header ring the
\* size equals the number of row nodes on its vertical ring; no debug
\* assertion (check_col_count in choose_column and cover_column) has failed
\* and no size has been decremented below 0.
C9_SizesCountLiveRows ==
    /\ table.asserts
    /\ \A c \in HeaderRing(table.nodes) :
          /\ ColumnWalk(table.nodes, c).j = c
          /\ Len(ColumnWalk(table.nodes, c).seen) = table.sizes[c - N_NODE_COUNT]
    /\ \A c \in 0 .. N_NODE_COLS - 1 : table.sizes[c] \in 0 .. N

C9_Witness ==
    /\ table.search_state = "Uncover"
    /\ Len(table.selected) >= 1
    /\ \E c \in HeaderRing(table.nodes) : table.sizes[c - N_NODE_COUNT] = 0

\* C10: at every step boundary the live rings are circularly consistent:
\* right/left are inverse on the header ring (root included), down/up are
\* inverse on the vertical ring of every column in the header ring, and the
\* walks from root and from every live header come back to their start.
C10_LiveRingsConsistent ==
    LET ns   == table.nodes
        ring == HeaderWalk(ns)
    IN  /\ ring.j = Root
        /\ \A x \in Range(ring.seen) \cup {Root} :
              ns[ns[x].right].left = x /\ ns[ns[x].left].right = x
        /\ \A c \in Range(ring.seen) :
              LET col == ColumnWalk(ns, c)
              IN  /\ col.j = c
                  /\ \A y \in Range(col.seen) \cup {c} :
                        ns[ns[y].down].up = y /\ ns[ns[y].up].down = y

C10_Witness ==
    /\ table.search_state = "Begin"
    /\ Len(table.selected) >= 2
    /\ Len(HeaderWalk(table.nodes).seen) >= 8

\* The column headers Table::from left out of the header ring: the columns
\* select_rows covered for the givens.
CoveredAtConstruction == Headers \ HeaderRing(built.nodes)

\* C11: givens are never backtracked over. At every step boundary, Finished
\* included, the given vector is the one construction returned and no column
\* covered at construction is back in the header ring; and a step taken in
\* Uncover with an empty selection stack goes to Finished and leaves every
\* node pointer, every size and the given vector as they were.
C11_GivensNeverBacktracked ==
    /\ [](/\ table.given = built.given
          /\ CoveredAtConstruction \cap HeaderRing(table.nodes) = {})
    /\ [][(table.search_state = "Uncover" /\ table.selected = << >>) =>
             /\ table'.search_state = "Finished"
             /\ table'.nodes = table.nodes
             /\ table'.sizes = table.sizes
             /\ table'.given = table.given]_vars

C11_Witness ==
    /\ Finished
    /\ built.given # << >>
    /\ CoveredAtConstruction # {}
    /\ HeaderRing(table.nodes) # {}
    /\ turns >= 150

\* The size of header c.
SizeOf(c) == table.sizes[c - N_NODE_COUNT]

\* The first header of least size met walking right from root (the header
\* ring must not be empty).
FirstSmallest ==
    LET walk == HeaderWalk(table.nodes).seen
        least == CHOOSE m \in { SizeOf(walk[k]) : k \in 1 .. Len(walk) } :
                     \A k \in 1 .. Len(walk) : m <= SizeOf(walk[k])
        first == CHOOSE k \in 1 .. Len(walk) :
                     /\ SizeOf(walk[k]) = least
                     /\ \A j \in 1 .. k - 1 : SizeOf(walk[j]) # least
    IN  walk[first]

\* The column the Begin arm gets from choose_column in the current state.
Chosen == choose_column(ViewOf(table), Root, table.nodes[Root].right).c

\* C12: in Begin with a non-empty header ring, the column choose_column
\* returns has the least size among the headers in the header ring, and is
\* the first header of that size met walking right from root.
C12_ChoosesFirstSmallest ==
    (table.search_state = "Begin" /\ table.nodes[Root].right # Root) =>
        Chosen = FirstSmallest

\* A Begin state during the search where the chosen column is not the first of the ring, has a
\* row left, and shares its size with a later header.
C12_Witness ==
    /\ table.search_state = "Begin"
    /\ Len(table.selected) >= 1
    /\ table.nodes[Root].right # Root
    /\ Chosen # table.nodes[Root].right
    /\ SizeOf(Chosen) >= 1
    /\ \E c \in HeaderRing(table.nodes) : c # Chosen /\ SizeOf(c) = SizeOf(Chosen)

\* The column chosen at search depth k, and the rows of its vertical ring in
\* ring order from the header.
ColumnAt(k) == table.nodes[table.selected[k]].column

RowsAt(k) == ColumnWalk(table.nodes, ColumnAt(k)).seen

\* C13: at every step boundary and every search depth k, the rows pushed so
\* far at that depth are the first rows of the chosen column's vertical ring,
\* in ring order and without repetition, the last of them being the row on
\* the stack, and the chosen column is out of the header ring. A step taken in
\* Uncover with a non-empty stack, popping row r of column c: if r is not the
\* last row of c's vertical ring, the row after it is pushed, the state
\* becomes Cover and c stays out of the header ring; if r is the last row
\* (every row of c has been tried), the stack is left popped, c is back in the
\* header ring and the state stays Uncover.
C13_RowsTriedInRingOrder ==
    /\ [](/\ Len(tried) = Len(table.selected)
          /\ \A k \in 1 .. Len(table.selected) :
                /\ Len(tried[k]) \in 1 .. Len(RowsAt(k))
                /\ tried[k] = SubSeq(RowsAt(k), 1, Len(tried[k]))
                /\ Last(tried[k]) = table.selected[k]
                /\ ColumnAt(k) \notin HeaderRing(table.nodes))
    /\ [][(table.search_state = "Uncover" /\ table.selected # << >>) =>
             LET k    == Len(table.selected)
                 c    == ColumnAt(k)
                 rows == RowsAt(k)
             IN  IF Len(tried[k]) < Len(rows)
                 THEN /\ table'.selected =
                            Append(Front(table.selected), rows[Len(tried[k]) + 1])
                      /\ table'.search_state = "Cover"
                      /\ c \notin HeaderRing(table'.nodes)
                 ELSE /\ table'.selected = Front(table.selected)
                      /\ table'.search_state = "Uncover"
                      /\ c \in HeaderRing(table'.nodes)]_vars

\* An Uncover state whose top row is the last of at least two rows tried at
\* its depth, below another depth where a second row is being tried.
C13_Witness ==
    /\ table.search_state = "Uncover"
    /\ Len(table.selected) >= 2
    /\ Len(tried[Len(tried)]) >= 2
    /\ Len(tried[Len(tried)]) = Len(RowsAt(Len(table.selected)))
    /\ \E k \in 1 .. Len(tried) - 1 : Len(tried[k]) >= 2

\* The columns the Cover arm covers for row r, in the order of its loop
\* (walking right from r), and those the Uncover arm uncovers for r, in the
\* order of its loop (walking left from r). A candidate row has four nodes, so
\* the walks are unrolled four times; st is [j, seen].
CoverOrder(r) ==
    LET turn(st, k) ==
            IF st.j = r THEN st
            ELSE [j    |-> table.nodes[st.j].right,
                  seen |-> Append(st.seen, table.nodes[st.j].column)]
    IN  FoldRange(turn, [j |-> table.nodes[r].right, seen |-> << >>], 0, 4).seen

UncoverOrder(r) ==
    LET turn(st, k) ==
            IF st.j = r THEN st
            ELSE [j    |-> table.nodes[st.j].left,
                  seen |-> Append(st.seen, table.nodes[st.j].column)]
    IN  FoldRange(turn, [j |-> table.nodes[r].left, seen |-> << >>], 0, 4).seen

Reverse(seq) == [k \in 1 .. Len(seq) |-> seq[Len(seq) + 1 - k]]

\* The view in which the Cover arm runs for the last row of the stack sel:
\* from the view construction returned, for every row of sel in order the
\* Begin arm's cover of the row's column, and for every row but the last the
\* Cover arm's covers of its other columns.
PreCover(sel) ==
    LET step(v, k) ==
            LET r  == sel[k]
                v1 == cover_column(v, v.nodes[r].column)
            IN  IF k < Len(sel) THEN cover_others(v1, r, v1.nodes[r].right) ELSE v1
    IN  FoldRange(step, ViewOf(built), 1, Len(sel) + 1)

SameView(v, w) == v.nodes = w.nodes /\ v.sizes = w.sizes

\* C14: selecting a row is exactly undone by popping it.
\*  - The stack is a stack: a step leaves it alone, pushes one row, pops one
\*    row, or replaces its top row; so the Cover step for a row ran with the
\*    same stack as the Uncover step that pops it.
\*  - In every Cover state the view is PreCover of the stack: this is the view
\*    immediately before the Cover step for the top row r.
\*  - In every Uncover state with a non-empty stack, the columns Uncover
\*    uncovers for the top row r are those Cover covered for r, in reverse
\*    order, and after those uncovers every node pointer and every size is
\*    again PreCover of the stack: what it was just before the Cover step for r.
C14_PopUndoesSelect ==
    /\ [][\/ table'.selected = table.selected
          \/ table'.selected = Front(table.selected)
          \/ \E r \in 0 .. N_NODE_COUNT - 1 :
                \/ table'.selected = Append(table.selected, r)
                \/ table'.selected = Append(Front(table.selected), r)]_vars
    /\ [](table.search_state = "Cover" =>
             SameView(ViewOf(table), PreCover(table.selected)))
    /\ []((table.search_state = "Uncover" /\ table.selected # << >>) =>
             LET r == Last(table.selected)
             IN  /\ Len(CoverOrder(r)) = 3
                 /\ UncoverOrder(r) = Reverse(CoverOrder(r))
                 /\ SameView(uncover_others(ViewOf(table), r, table.nodes[r].left),
                             PreCover(table.selected)))

\* An Uncover state about to pop a row at depth 2 or more after the search
\* went deeper and came back: a second row is being tried at its depth.
C14_Witness ==
    /\ table.search_state = "Uncover"
    /\ Len(table.selected) >= 2
    /\ Len(yielded) >= 1
    /\ Len(tried[Len(tried)]) >= 2

\* Begin, with a column left and the chosen column holding no row.
DeadBranch ==
    /\ table.search_state = "Begin"
    /\ table.nodes[Root].right # Root
    /\ ColumnWalk(table.nodes, Chosen).seen = << >>

\* C15: a step taken in Begin when the chosen column has no row goes to
\* Uncover and covers nothing: node pointers, sizes, given and the selection
\* stack are as they were.
C15_DeadBranchCoversNothing ==
    [][DeadBranch =>
         /\ table'.search_state = "Uncover"
         /\ table'.nodes = table.nodes
         /\ table'.sizes = table.sizes
         /\ table'.given = table.given
         /\ table'.selected = table.selected]_vars

\* A dead branch met during the search of a puzzle whose givens do not collide.
C15_Witness ==
    /\ DeadBranch
    /\ Len(table.selected) >= 1
    /\ ~GivensCollide(board)
    /\ turns < MaxTurns

\* The step leaves node pointers, sizes, given and the selection stack alone.
SearchFrame ==
    /\ table'.nodes = table.nodes
    /\ table'.sizes = table.sizes
    /\ table'.given = table.given
    /\ table'.selected = table.selected

\* C16: a step that ends in SolutionFound starts in Begin with root's right
\* neighbour being root, and a step taken in SolutionFound ends in Uncover;
\* both leave node pointers, sizes, given and the selection stack alone, and
\* the Grid next() returns in the second is the decode of the given and
\* selected rows of the state in which the solution was found.
C16_YieldsRowsOfSolutionFound ==
    [][/\ table'.search_state = "SolutionFound" =>
             /\ table.search_state = "Begin"
             /\ table.nodes[Root].right = Root
             /\ SearchFrame
             /\ yielded' = yielded
       /\ table.search_state = "SolutionFound" =>
             /\ table'.search_state = "Uncover"
             /\ SearchFrame
             /\ yielded' = Append(yielded, BoardFrom(table.given, table.selected))]_vars

\* Just after next() returned a Grid found with rows on the selection stack:
\* the engine is in Uncover, the header ring is still empty, and the Grid is
\* the decode of the rows still held.
C16_Witness ==
    /\ table.search_state = "Uncover"
    /\ table.nodes[Root].right = Root
    /\ Len(table.selected) >= 2
    /\ Len(yielded) >= 1
    /\ Last(yielded) = BoardFrom(table.given, table.selected)

\* C17: in Finished the selection stack is empty and every node pointer and
\* every size is what Table::from returned (the matrix with the givens
\* covered): the search has undone every cover it made.
C17_FinishedRestoresConstruction ==
    Finished =>
        /\ table.selected = << >>
        /\ table.nodes = built.nodes
        /\ table.sizes = built.sizes

\* Finished after a search that covered, backtracked and yielded a Grid.
C17_Witness ==
    /\ Finished
    /\ nones = 0
    /\ Len(yielded) = 1
    /\ turns > 100
    /\ table.nodes = built.nodes

\* The headers of the constraint columns row r touches.
HeadersOf(r) == { col + N_NODE_COUNT : col \in ColumnsOf(r) }

\* C18: in every Begin state the headers missing from the header ring are
\* exactly the headers of the columns touched by the given rows and the rows
\* on the selection stack; two rows of the stack touch no common column, and
\* no row of the stack touches a column touched by a given row.
C18_CoveredAreColumnsOfRows ==
    table.search_state = "Begin" =>
        LET given    == table.given
            selected == table.selected
        IN  /\ Headers \ HeaderRing(table.nodes) =
                   UNION { HeadersOf(given[k]) : k \in 1 .. Len(given) }
                   \cup UNION { HeadersOf(selected[k]) : k \in 1 .. Len(selected) }
            /\ \A k, m \in 1 .. Len(selected) :
                   k # m => HeadersOf(selected[k]) \cap HeadersOf(selected[m]) = {}
            /\ \A k \in 1 .. Len(selected) : \A m \in 1 .. Len(given) :
                   HeadersOf(selected[k]) \cap HeadersOf(given[m]) = {}

\* A Begin state during the search of a board with colliding givens, with
\* rows on the stack and columns left.
C18_Witness ==
    /\ table.search_state = "Begin"
    /\ Len(table.selected) >= 2
    /\ table.nodes[Root].right # Root
    /\ table.warned >= 1

\* The non-blank cells of the input.
Givens == { c \in Cells : At(board, c) # 0 }

\* The headers of the columns touched by the given rows.
GivenHeaders == UNION { HeadersOf(table.given[k]) : k \in 1 .. Len(table.given) }

\* C19: for a board with colliding givens, construction records one row per
\* given, covers every column a given touches once and skips (with one
\* warning each) the columns met again; the engine built this way is never in
\* SolutionFound, no Grid is yielded, and the search ends in Finished before
\* next() has used up its calls of search().
C19_CollidingGivensYieldNothing ==
    GivensCollide(board) =>
        /\ Len(table.given) = Cardinality(Givens)
        /\ table.warned >= 1
        /\ table.warned = 4 * Len(table.given) - Cardinality(GivenHeaders)
        /\ Headers \ HeaderRing(built.nodes) = GivenHeaders
        /\ table.search_state # "SolutionFound"
        /\ yielded = << >>
        /\ (turns = MaxTurns => Finished)

\* The end of a search on colliding givens that selected rows on its way.
C19_Witness ==
    /\ GivensCollide(board)
    /\ Finished
    /\ yielded = << >>
    /\ nones >= 1
    /\ turns > 50
    /\ table.warned = 3

\* The candidate (cell row x, cell column y, digit z) of the row node n.
CandidateOf(n) == row_num_to_coords(n \div 4)

\* The rows of header h in the built matrix all agree on what the kind of the
\* column fixes: kind 0 the cell, kind 1 the row and the digit, kind 2 the
\* column and the digit, kind 3 the box and the digit.
SameConstraint(kind, p, q) ==
    CASE kind = 0 -> p.x = q.x /\ p.y = q.y
      [] kind = 1 -> p.x = q.x /\ p.z = q.z
      [] kind = 2 -> p.y = q.y /\ p.z = q.z
      [] kind = 3 -> /\ p.x \div 3 = q.x \div 3
                     /\ p.y \div 3 = q.y \div 3
                     /\ p.z = q.z

\* C20: the matrix Table::from builds before select_rows runs (BuiltMatrix
\* does not read the board). It has N*N*N candidate rows of four nodes, 4*N*N
\* column headers and root. Every candidate row is a horizontal ring of its
\* four nodes, in four distinct columns, one of each kind (cell, row-digit,
\* column-digit, box-digit). Every column's vertical ring holds its header
\* and exactly N row nodes, in the order they were added (header.down is the
\* first), all of one constraint and of N different candidates. The header
\* ring lists the 4*N*N headers in index order after root and closes on root.
BuiltMatrixShape ==
    LET ns == BuiltNodes
    IN  /\ BuiltMatrix.vec.len = N * N * N * 4 + 4 * N * N + 1
        /\ \A rn \in 0 .. N * N * N - 1 :
              /\ \A m \in 0 .. 3 :
                    /\ ns[4 * rn + m].right = 4 * rn + ((m + 1) % 4)
                    /\ ns[4 * rn + m].left = 4 * rn + ((m + 3) % 4)
                    /\ (ns[4 * rn + m].column - N_NODE_COUNT) \div (N * N) = m
              /\ \A m \in 0 .. 3 :
                    4 * rn + m \in Range(ColumnWalk(ns, ns[4 * rn + m].column).seen)
        /\ \A h \in Headers :
              LET col  == ColumnWalk(ns, h)
                  kind == (h - N_NODE_COUNT) \div (N * N)
              IN  /\ col.j = h
                  /\ Len(col.seen) = N
                  /\ ns[h].column = h
                  /\ \A k \in 1 .. N :
                        /\ col.seen[k] < N_NODE_COUNT
                        /\ ns[col.seen[k]].column = h
                        /\ ns[ns[col.seen[k]].down].up = col.seen[k]
                        /\ SameConstraint(kind, CandidateOf(col.seen[1]),
                                                CandidateOf(col.seen[k]))
                  /\ \A k \in 1 .. N - 1 : col.seen[k] < col.seen[k + 1]
                  /\ ns[ns[h].down].up = h
        /\ HeaderWalk(ns).j = Root
        /\ HeaderWalk(ns).seen = [k \in 1 .. 4 * N * N |-> N_NODE_COUNT + k - 1]
        /\ \A c \in 0 .. 4 * N * N - 1 : BuiltView.sizes[c] = N

\* C20 (continued): whatever the board, the engine works on that matrix: in
\* every state the candidate rows are the horizontal rings the builder made
\* (covering and uncovering never write a row node's left, right or column).
C20_BuiltMatrixShape ==
    /\ BuiltMatrixShape
    /\ \A n \in 0 .. N_NODE_COUNT - 1 :
          /\ table.nodes[n].left = BuiltNodes[n].left
          /\ table.nodes[n].right = BuiltNodes[n].right
          /\ table.nodes[n].column = BuiltNodes[n].column

\* The engine just constructed from a puzzle: the matrix has been built (and
\* the puzzle's givens covered in it).
C20_Witness ==
    /\ turns = 0
    /\ board \in Puzzles
    /\ BuiltMatrix.vec.len = N_GRID_COUNT
    /\ Len(table.given) >= 1
    /\ Cardinality(HeaderRing(BuiltNodes)) = N_NODE_COLS
====
